---- MODULE Spec2Model ----
(***************************************************************************)
(* Model of sdmx_query_tool: the SDMX period normalizer, the query-string  *)
(* builder and the source clients (ECB, IMF, INSEE, OECD).                 *)
(*                                                                         *)
(* A Python str is modelled as a sequence of one-character strings, so     *)
(* that split, join, upper, int and str are computed on the characters.    *)
(***************************************************************************)
EXTENDS Integers, Sequences, FiniteSets, TLC

VARIABLES
    time_string,      \* argument of __convert_ecb_time_format_to_datetime
    normalized,       \* its outcome: a date, a raised error, or not yet called
    kwargs,           \* options mapping handed to the query builder, in iteration order
    builder,          \* the class whose __retrieve_data builds the query string
    shelf_name,       \* the registry the query builder reads its templates from
    formatted_inputs, \* the built query string, or not yet built
    instance,         \* the Source Client class that was instantiated ("none" before)
    data_flows,       \* index of the instance's catalog table, in document order
    requests,         \* every requests.get issued so far, in order
    call,             \* the last constructor or operation call and its arguments
    result,           \* outcome of that call
    calls,            \* number of operation calls made on the instance
    transport,        \* how the transport answered the request of that call, if any
    document,         \* the downloaded document handed to an extractor
    extracted         \* outcome of the extraction, or not yet extracted

vars == <<time_string, normalized, kwargs, builder, shelf_name, formatted_inputs,
          instance, data_flows, requests, call, result, calls, transport,
          document, extracted>>

normVars == <<time_string, normalized>>
queryVars == <<kwargs, builder, shelf_name, formatted_inputs>>
clientVars == <<instance, data_flows, requests, call, result, calls, transport>>
extractVars == <<document, extracted>>

----------------------------------------------------------------------------
(* Bounds *)

\* number of consecutive years, from 2000 on, the normalizer is applied to
NumYears == 28

\* largest number of entries of an options mapping
MaxOptions == 2

\* largest number of data flows in a listing document
MaxCatalog == 2

\* largest number of operation calls made on one client instance
MaxCalls == 2

----------------------------------------------------------------------------
(* Python str primitives *)

DigitChars == <<"0", "1", "2", "3", "4", "5", "6", "7", "8", "9">>

IsDigit(c) == \E i \in 1..10 : DigitChars[i] = c

DigitVal(c) == (CHOOSE i \in 1..10 : DigitChars[i] = c) - 1

\* str.split(sep) for a one-character separator
RECURSIVE Split(_, _)
Split(s, sep) ==
    IF \A i \in 1..Len(s) : s[i] # sep
    THEN <<s>>
    ELSE LET k == CHOOSE i \in 1..Len(s) :
                      s[i] = sep /\ \A j \in 1..(i - 1) : s[j] # sep
         IN  <<SubSeq(s, 1, k - 1)>> \o Split(SubSeq(s, k + 1, Len(s)), sep)

\* sep.join(parts)
RECURSIVE Join(_, _)
Join(parts, sep) ==
    IF parts = <<>> THEN <<>>
    ELSE IF Len(parts) = 1 THEN parts[1]
    ELSE parts[1] \o sep \o Join(Tail(parts), sep)

\* int(s) for s made of decimal digits; -1 stands for the ValueError int raises
RECURSIVE IntOfDigits(_)
IntOfDigits(s) ==
    IF s = <<>> THEN 0
    ELSE 10 * IntOfDigits(SubSeq(s, 1, Len(s) - 1)) + DigitVal(s[Len(s)])

PyInt(s) ==
    IF s # <<>> /\ \A i \in 1..Len(s) : IsDigit(s[i]) THEN IntOfDigits(s) ELSE -1

\* str(n) for n >= 0
RECURSIVE PyStr(_)
PyStr(n) ==
    IF n < 10 THEN <<DigitChars[n + 1]>>
    ELSE PyStr(n \div 10) \o <<DigitChars[(n % 10) + 1]>>

----------------------------------------------------------------------------
(* Calendar arithmetic of the standard library *)

Date(y, m, d) == [kind |-> "date", year |-> y, month |-> m, day |-> d]

Raise(e) == [kind |-> "raise", exc |-> e]

NotCalled == [kind |-> "none"]

NoCall == [op |-> "none"]

\* the Python value None
PyNone == [kind |-> "None"]

\* no document has been handed to an extractor
NoDocument == [dialect |-> "none"]

\* isleap without the century rule
isleap_every_fourth(y) == y % 4 = 0

\* calendar.isleap
isleap(y) == y % 4 = 0 /\ (y % 100 # 0 \/ y % 400 = 0)

mdays == <<31, 28, 31, 30, 31, 30, 31, 31, 30, 31, 30, 31>>

\* monthrange that never lengthens February
monthrange_no_leap(y, m) == IF m < 1 \/ m > 12 THEN 0 ELSE mdays[m]

\* calendar.monthrange(year, month)[1]; 0 stands for IllegalMonthError
monthrange(y, m) ==
    IF m < 1 \/ m > 12 THEN 0
    ELSE mdays[m] + (IF m = 2 /\ isleap(y) THEN 1 ELSE 0)

DaysInYear(y) == IF isleap(y) THEN 366 ELSE 365

\* datetime.date(y, 1, 1).toordinal() - 1
DaysBeforeYear(y) ==
    (y - 1) * 365 + ((y - 1) \div 4) - ((y - 1) \div 100) + ((y - 1) \div 400)

RECURSIVE DaysBeforeMonth(_, _)
DaysBeforeMonth(y, m) ==
    IF m = 1 THEN 0 ELSE DaysBeforeMonth(y, m - 1) + monthrange(y, m - 1)

toordinal(dt) == DaysBeforeYear(dt.year) + DaysBeforeMonth(dt.year, dt.month) + dt.day

\* datetime.date.weekday(): Monday is 0
weekday(dt) == (toordinal(dt) + 6) % 7

\* the date that is day number j (1-based, may run past the year's end) of year y
RECURSIVE DateOfYearDay(_, _)
DateOfYearDay(y, j) ==
    IF j > DaysInYear(y) THEN DateOfYearDay(y + 1, j - DaysInYear(y))
    ELSE LET m == CHOOSE k \in 1..12 :
                      /\ DaysBeforeMonth(y, k) < j
                      /\ j <= DaysBeforeMonth(y, k) + monthrange(y, k)
         IN  Date(y, m, j - DaysBeforeMonth(y, m))

----------------------------------------------------------------------------
(* Date parsers of the libraries the normalizer calls *)

AllDigits(s) == s # <<>> /\ \A i \in 1..Len(s) : IsDigit(s[i])

\* dateutil.parser.parse on a year-first "YYYY-M-D" string: the date when it
\* exists, ValueError otherwise
parse(s) ==
    LET p == Split(s, "-") IN
    IF /\ Len(p) = 3
       /\ Len(p[1]) = 4 /\ AllDigits(p[1])
       /\ Len(p[2]) \in 1..2 /\ AllDigits(p[2])
       /\ Len(p[3]) \in 1..2 /\ AllDigits(p[3])
    THEN LET y == PyInt(p[1])
             m == PyInt(p[2])
             d == PyInt(p[3])
         IN  IF y >= 1 /\ m \in 1..12 /\ d >= 1 /\ d <= monthrange(y, m)
             THEN Date(y, m, d)
             ELSE Raise("ValueError")
    ELSE Raise("ValueError")

\* _strptime._calc_julian_from_U_or_W with week_starts_Mon = True
calc_julian_from_W(year, week_of_year, day_of_week) ==
    LET first_weekday == weekday(Date(year, 1, 1))
        week_0_length == (7 - first_weekday) % 7
    IN  IF week_of_year = 0
        THEN 1 + day_of_week - first_weekday
        ELSE 1 + week_0_length + 7 * (week_of_year - 1) + day_of_week

\* datetime.strptime(s, "%Y-W%W-%w"): %Y is four digits, %W is one or two
\* digits up to 53, %w is one digit up to 6; anything else is a ValueError
strptime(s) ==
    LET p == Split(s, "-") IN
    IF /\ Len(p) = 3
       /\ Len(p[1]) = 4 /\ AllDigits(p[1])
       /\ Len(p[2]) \in 2..3 /\ p[2][1] = "W" /\ AllDigits(Tail(p[2]))
       /\ PyInt(Tail(p[2])) <= 53
       /\ Len(p[3]) = 1 /\ AllDigits(p[3]) /\ PyInt(p[3]) <= 6
    THEN LET year == PyInt(p[1])
             week == PyInt(Tail(p[2]))
             w == PyInt(p[3])
             day_of_week == IF w = 0 THEN 6 ELSE w - 1
             julian == calc_julian_from_W(year, week, day_of_week)
         IN  IF julian <= 0
             THEN DateOfYearDay(year - 1, julian + DaysInYear(year - 1))
             ELSE DateOfYearDay(year, julian)
    ELSE Raise("ValueError")

----------------------------------------------------------------------------
(* Period Normalizer *)

\* date_suffixes with the end of the third quarter given to the second
date_suffixes_q2_as_q3 ==
    [t \in {<<"S", "1">>, <<"S", "2">>, <<"Q", "1">>, <<"Q", "2">>,
            <<"Q", "3">>, <<"Q", "4">>} |->
        CASE t = <<"S", "1">> -> <<"-", "0", "6", "-", "3", "0">>
          [] t = <<"S", "2">> -> <<"-", "1", "2", "-", "3", "1">>
          [] t = <<"Q", "1">> -> <<"-", "0", "3", "-", "3", "1">>
          [] t = <<"Q", "2">> -> <<"-", "0", "9", "-", "3", "0">>
          [] t = <<"Q", "3">> -> <<"-", "0", "9", "-", "3", "0">>
          [] t = <<"Q", "4">> -> <<"-", "1", "2", "-", "3", "1">>]

date_suffixes ==
    [t \in {<<"S", "1">>, <<"S", "2">>, <<"Q", "1">>, <<"Q", "2">>,
            <<"Q", "3">>, <<"Q", "4">>} |->
        CASE t = <<"S", "1">> -> <<"-", "0", "6", "-", "3", "0">>
          [] t = <<"S", "2">> -> <<"-", "1", "2", "-", "3", "1">>
          [] t = <<"Q", "1">> -> <<"-", "0", "3", "-", "3", "1">>
          [] t = <<"Q", "2">> -> <<"-", "0", "6", "-", "3", "0">>
          [] t = <<"Q", "3">> -> <<"-", "0", "9", "-", "3", "0">>
          [] t = <<"Q", "4">> -> <<"-", "1", "2", "-", "3", "1">>]

Contains(s, c) == \E i \in 1..Len(s) : s[i] = c

format_two_parts_date(split_date) ==
    LET year == split_date[1]
        date_tail == split_date[2]
    IN  IF date_tail \in DOMAIN date_suffixes
        THEN parse(year \o date_suffixes[date_tail])
        ELSE IF Contains(date_tail, "W")
        THEN strptime(Join(split_date, <<"-">>) \o <<"-", "1">>)
        ELSE IF PyInt(year) = -1 \/ PyInt(date_tail) = -1
        THEN Raise("ValueError")
        ELSE LET last_day == monthrange(PyInt(year), PyInt(date_tail)) IN
             IF last_day = 0
             THEN Raise("IllegalMonthError")
             ELSE parse(Join(<<year, date_tail, PyStr(last_day)>>, <<"-">>))

convert_ecb_time_format_to_datetime(s) ==
    LET time_string_split == Split(s, "-") IN
    IF Len(time_string_split) = 1
    THEN parse(s \o <<"-", "1", "2", "-", "3", "1">>)
    ELSE IF Len(time_string_split) = 2
    THEN format_two_parts_date(time_string_split)
    ELSE parse(s)

----------------------------------------------------------------------------
(* Inputs of the normalizer *)

Years == 2000..(2000 + NumYears - 1) \cup {1900, 2100}

YearStr(y) == PyStr(y)

TwoDigits(n) == IF n < 10 THEN <<"0">> \o PyStr(n) ELSE PyStr(n)

SuffixTails == DOMAIN date_suffixes
WeekTails == {<<"W">> \o TwoDigits(w) : w \in 0..54} \cup {<<"W", "7">>}
MonthTails == {TwoDigits(m) : m \in 0..13}
OtherTails == {<<"Q", "5">>, <<"S", "3">>, <<"Q", "0">>, <<"1", "W">>, <<"X", "X">>}
Tails == SuffixTails \cup WeekTails \cup MonthTails \cup OtherTails

FullDates(y) ==
    {YearStr(y) \o <<"-">> \o TwoDigits(md[1]) \o <<"-">> \o TwoDigits(md[2]) :
        md \in {<<1, 1>>, <<2, 28>>, <<2, 29>>, <<6, 15>>, <<12, 31>>}}

Periods ==
    UNION {{YearStr(y)} \cup {YearStr(y) \o <<"-">> \o t : t \in Tails} \cup FullDates(y) :
           y \in Years}

NoKwargs == <<>>

InitNormalize ==
    /\ time_string \in Periods
    /\ normalized = NotCalled
    /\ kwargs = NoKwargs
    /\ builder = "none"
    /\ shelf_name = "none"
    /\ formatted_inputs = NotCalled
    /\ instance = "none"
    /\ data_flows = <<>>
    /\ requests = <<>>
    /\ call = NoCall
    /\ result = NotCalled
    /\ calls = 0
    /\ transport = "none"
    /\ document = NoDocument
    /\ extracted = NotCalled

\* one call of the normalizer on the period string
Normalize ==
    /\ normalized = NotCalled
    /\ normalized' = convert_ecb_time_format_to_datetime(time_string)
    /\ UNCHANGED <<time_string, queryVars, clientVars, extractVars>>

NextNormalize == Normalize

SpecNormalize == InitNormalize /\ [][NextNormalize]_vars

----------------------------------------------------------------------------
(* Calendar notions the statements about the normalizer refer to *)

Called == normalized # NotCalled

PeriodOf(y, t) == YearStr(y) \o <<"-">> \o t

Quarter(n) == <<"Q">> \o PyStr(n)
Semester(n) == <<"S">> \o PyStr(n)
Week(w) == <<"W">> \o TwoDigits(w)

\* ordinal of the Monday that starts ISO week 1 of year y
IsoWeek1Monday(y) ==
    LET firstday == DaysBeforeYear(y) + 1
        firstweekday == (firstday + 6) % 7
    IN  IF firstweekday > 3 THEN firstday - firstweekday + 7 ELSE firstday - firstweekday

\* number of ISO weeks of year y (52 or 53)
IsoWeeksInYear(y) == (IsoWeek1Monday(y + 1) - IsoWeek1Monday(y)) \div 7

\* ISO year of a date
IsoYear(dt) ==
    IF toordinal(dt) < IsoWeek1Monday(dt.year) THEN dt.year - 1
    ELSE IF toordinal(dt) >= IsoWeek1Monday(dt.year + 1) THEN dt.year + 1
    ELSE dt.year

\* ISO week number of a date
IsoWeek(dt) == ((toordinal(dt) - IsoWeek1Monday(IsoYear(dt))) \div 7) + 1

\* the leap-year rule as the Gregorian calendar states it
LeapYear(y) == (y % 4 = 0 /\ y % 100 # 0) \/ y % 400 = 0

MonthLength(y, m) ==
    IF m \in {4, 6, 9, 11} THEN 30
    ELSE IF m = 2 THEN (IF LeapYear(y) THEN 29 ELSE 28)
    ELSE 31

\* the calendar day that follows dt
NextDay(dt) ==
    IF dt.day < MonthLength(dt.year, dt.month) THEN Date(dt.year, dt.month, dt.day + 1)
    ELSE IF dt.month < 12 THEN Date(dt.year, dt.month + 1, 1)
    ELSE Date(dt.year + 1, 1, 1)

\* the days of year y among the month-day pairs the full-date inputs are built from
CalendarDays(y) ==
    {md \in {<<1, 1>>, <<2, 28>>, <<2, 29>>, <<6, 15>>, <<12, 31>>} :
        md[2] <= MonthLength(y, md[1])}

\* dt is the last day of calendar months first..last of year y
LastDayOfMonths(dt, y, first, last) ==
    /\ dt.kind = "date"
    /\ dt.year = y
    /\ dt.month \in first..last
    /\ (NextDay(dt).year # y \/ NextDay(dt).month > last)

\* dt is the Sunday that ends ISO week w of ISO year y
LastDayOfIsoWeek(dt, y, w) ==
    /\ dt.kind = "date"
    /\ weekday(dt) = 6
    /\ IsoYear(dt) = y
    /\ IsoWeek(dt) = w

----------------------------------------------------------------------------
(* Statements about the Period Normalizer *)

\* C5: for every year Y and every week W that exists in Y, normalize("Y-Www")
\* is the Monday of ISO week W of Y: its ISO year is Y and its ISO week is W.
C5_WeekIsIsoMonday ==
    \A y \in Years : \A w \in 1..IsoWeeksInYear(y) :
        (time_string = PeriodOf(y, Week(w)) /\ Called) =>
            /\ normalized.kind = "date"
            /\ weekday(normalized) = 0
            /\ IsoYear(normalized) = y
            /\ IsoWeek(normalized) = w

\* C6 as stated: every annual, semester, quarter, month and week period is
\* normalized to the last calendar day of the period it covers, and a full
\* date is returned unchanged.
C6_EndOfPeriodAlways ==
    Called =>
        \A y \in Years :
            /\ time_string = YearStr(y) => LastDayOfMonths(normalized, y, 1, 12)
            /\ \A n \in 1..2 : time_string = PeriodOf(y, Semester(n)) =>
                   LastDayOfMonths(normalized, y, 6 * n - 5, 6 * n)
            /\ \A n \in 1..4 : time_string = PeriodOf(y, Quarter(n)) =>
                   LastDayOfMonths(normalized, y, 3 * n - 2, 3 * n)
            /\ \A m \in 1..12 : time_string = PeriodOf(y, TwoDigits(m)) =>
                   LastDayOfMonths(normalized, y, m, m)
            /\ \A w \in 1..IsoWeeksInYear(y) : time_string = PeriodOf(y, Week(w)) =>
                   LastDayOfIsoWeek(normalized, y, w)
            /\ \A md \in CalendarDays(y) :
                   time_string = PeriodOf(y, TwoDigits(md[1])) \o <<"-">> \o TwoDigits(md[2]) =>
                       normalized = Date(y, md[1], md[2])

\* C6 amended: every annual, semester, quarter and month period is normalized
\* to the last calendar day of the period it covers, and a full date is
\* returned unchanged; a week period is normalized to a Monday, not to the
\* last day of a week.
C6_EndOfPeriodExceptWeek ==
    Called =>
        \A y \in Years :
            /\ \A w \in 1..IsoWeeksInYear(y) : time_string = PeriodOf(y, Week(w)) =>
                   normalized.kind = "date" /\ weekday(normalized) = 0
            /\ time_string = YearStr(y) => LastDayOfMonths(normalized, y, 1, 12)
            /\ \A n \in 1..2 : time_string = PeriodOf(y, Semester(n)) =>
                   LastDayOfMonths(normalized, y, 6 * n - 5, 6 * n)
            /\ \A n \in 1..4 : time_string = PeriodOf(y, Quarter(n)) =>
                   LastDayOfMonths(normalized, y, 3 * n - 2, 3 * n)
            /\ \A m \in 1..12 : time_string = PeriodOf(y, TwoDigits(m)) =>
                   LastDayOfMonths(normalized, y, m, m)
            /\ \A md \in CalendarDays(y) :
                   time_string = PeriodOf(y, TwoDigits(md[1])) \o <<"-">> \o TwoDigits(md[2]) =>
                       normalized = Date(y, md[1], md[2])

\* C6 witness: a quarter period has been normalized to a date
C6_Witness ==
    /\ time_string = <<"2", "0", "2", "0", "-", "Q", "3">>
    /\ normalized.kind = "date"

\* C7: normalize("Y") is Y-12-31, and S1 and Q2 give Y-06-30, S2 and Q4 give
\* Y-12-31, Q1 gives Y-03-31, Q3 gives Y-09-30.
C7_FixedEndDates ==
    Called =>
        \A y \in Years :
            /\ time_string = YearStr(y) => normalized = Date(y, 12, 31)
            /\ time_string = PeriodOf(y, <<"S", "1">>) => normalized = Date(y, 6, 30)
            /\ time_string = PeriodOf(y, <<"S", "2">>) => normalized = Date(y, 12, 31)
            /\ time_string = PeriodOf(y, <<"Q", "1">>) => normalized = Date(y, 3, 31)
            /\ time_string = PeriodOf(y, <<"Q", "2">>) => normalized = Date(y, 6, 30)
            /\ time_string = PeriodOf(y, <<"Q", "3">>) => normalized = Date(y, 9, 30)
            /\ time_string = PeriodOf(y, <<"Q", "4">>) => normalized = Date(y, 12, 31)

\* C7 witness: a bare year has been normalized to a date
C7_Witness ==
    /\ time_string = <<"2", "0", "1", "9">>
    /\ normalized.kind = "date"

\* C8: for every year Y and month M in 01..12, normalize("Y-M") is the last
\* calendar day of month M of Y; February gives the 29th exactly in leap years.
C8_MonthEnd ==
    Called =>
        \A y \in Years : \A m \in 1..12 :
            time_string = PeriodOf(y, TwoDigits(m)) =>
                normalized = Date(y, m, MonthLength(y, m))

\* C8 witness: February of a century year that is not a leap year has been
\* normalized to a date
C8_Witness ==
    /\ time_string = <<"1", "9", "0", "0", "-", "0", "2">>
    /\ normalized.kind = "date"

\* C9: a two-segment period whose tail is none of S1, S2, Q1..Q4, a week that
\* exists in the year, or a month 01..12 makes normalize raise an error.
C9_BadTailRaises ==
    Called =>
        \A y \in Years : \A t \in Tails :
            ( /\ time_string = PeriodOf(y, t)
              /\ t \notin {Semester(n) : n \in 1..2}
              /\ t \notin {Quarter(n) : n \in 1..4}
              /\ t \notin {Week(w) : w \in 1..IsoWeeksInYear(y)}
              /\ t \notin {<<"W">> \o PyStr(w) : w \in 1..9}
              /\ t \notin {TwoDigits(m) : m \in 1..12} )
            => normalized.kind = "raise"

----------------------------------------------------------------------------
(* Registry of query-fragment templates (datashelf.py) *)

ECB_inputs ==
    [k \in {"start_period", "end_period", "last_n_observations", "first_n_observations", "detail", "updated_after", "include_history"} |->
        CASE k = "start_period" -> <<"s", "t", "a", "r", "t", "P", "e", "r", "i", "o", "d", "=", "{", "}">>
          [] k = "end_period" -> <<"e", "n", "d", "P", "e", "r", "i", "o", "d", "=", "{", "}">>
          [] k = "last_n_observations" -> <<"l", "a", "s", "t", "N", "O", "b", "s", "e", "r", "v", "a", "t", "i", "o", "n", "s", "=", "{", "}">>
          [] k = "first_n_observations" -> <<"f", "i", "r", "s", "t", "N", "O", "b", "s", "e", "r", "v", "a", "t", "i", "o", "n", "s", "=", "{", "}">>
          [] k = "detail" -> <<"d", "e", "t", "a", "i", "l", "=", "{", "}">>
          [] k = "updated_after" -> <<"u", "p", "d", "a", "t", "e", "d", "A", "f", "t", "e", "r", "=", "{", "}">>
          [] k = "include_history" -> <<"i", "n", "c", "l", "u", "d", "e", "H", "i", "s", "t", "o", "r", "y", "=", "{", "}">>]

OECD_inputs ==
    [k \in {"start_period", "end_period"} |->
        CASE k = "start_period" -> <<"s", "t", "a", "r", "t", "P", "e", "r", "i", "o", "d", "=", "{", "}">>
          [] k = "end_period" -> <<"e", "n", "d", "P", "e", "r", "i", "o", "d", "=", "{", "}">>]

INSEE_inputs ==
    [k \in {"start_period", "end_period", "last_n_observations", "first_n_observations", "updated_after", "include_history"} |->
        CASE k = "start_period" -> <<"s", "t", "a", "r", "t", "P", "e", "r", "i", "o", "d", "=", "{", "}">>
          [] k = "end_period" -> <<"e", "n", "d", "P", "e", "r", "i", "o", "d", "=", "{", "}">>
          [] k = "last_n_observations" -> <<"l", "a", "s", "t", "N", "O", "b", "s", "e", "r", "v", "a", "t", "i", "o", "n", "s", "=", "{", "}">>
          [] k = "first_n_observations" -> <<"f", "i", "r", "s", "t", "N", "O", "b", "s", "e", "r", "v", "a", "t", "i", "o", "n", "s", "=", "{", "}">>
          [] k = "updated_after" -> <<"u", "p", "d", "a", "t", "e", "d", "A", "f", "t", "e", "r", "=", "{", "}">>
          [] k = "include_history" -> <<"i", "n", "c", "l", "u", "d", "e", "H", "i", "s", "t", "o", "r", "y", "=", "{", "}">>]

\* the "inputs" table of DataShelf().ecb(), .oecd() and .insee()
inputs(shelf) ==
    CASE shelf = "ecb" -> ECB_inputs
      [] shelf = "oecd" -> OECD_inputs
      [] shelf = "insee" -> INSEE_inputs

----------------------------------------------------------------------------
(* Parameter Validator/Builder *)

\* str.format with one positional argument: the first "{}" of the template is
\* replaced by the argument, which is not scanned again
Format(template, value) ==
    IF \E i \in 1..(Len(template) - 1) : template[i] = "{" /\ template[i + 1] = "}"
    THEN LET k == CHOOSE i \in 1..(Len(template) - 1) :
                      /\ template[i] = "{" /\ template[i + 1] = "}"
                      /\ \A j \in 1..(i - 1) : ~(template[j] = "{" /\ template[j + 1] = "}")
         IN  SubSeq(template, 1, k - 1) \o value \o SubSeq(template, k + 2, Len(template))
    ELSE template

\* [i for i in list(kwargs.keys()) if registry.get(i)]
RECURSIVE validated_inputs(_, _)
validated_inputs(kw, registry) ==
    IF kw = <<>> THEN <<>>
    ELSE (IF kw[1][1] \in DOMAIN registry /\ registry[kw[1][1]] # <<>>
          THEN <<kw[1][1]>> ELSE <<>>) \o validated_inputs(Tail(kw), registry)

\* kwargs[i]
Lookup(kw, key) == kw[CHOOSE n \in 1..Len(kw) : kw[n][1] = key][2]

\* build_query taking the registered keys in the registry's order, not the
\* order of kwargs
build_query_registry_order(kw, registry) ==
    LET order == <<"start_period", "end_period", "last_n_observations",
                   "first_n_observations", "detail", "updated_after", "include_history">>
        present == SelectSeq(order, LAMBDA k : k \in DOMAIN registry
                                 /\ \E n \in 1..Len(kw) : kw[n][1] = k)
    IN  Join([n \in 1..Len(present) |-> Format(registry[present[n]], Lookup(kw, present[n]))],
             <<"&">>)

\* "&".join([registry.get(i).format(kwargs[i]) for i in validated_inputs])
build_query(kw, registry) ==
    LET valid == validated_inputs(kw, registry)
    IN  Join([n \in 1..Len(valid) |-> Format(registry[valid[n]], Lookup(kw, valid[n]))],
             <<"&">>)

\* the query string as ECB.__retrieve_data computes it from **kwargs
ecb_formatted_inputs(kw, registry) == build_query(kw, registry)

\* the query string as INSEE.__retrieve_data and OECD.__retrieve_data compute
\* it from kwargs=None or a dict
insee_formatted_inputs(kw, registry) ==
    IF kw = <<>> THEN <<>> ELSE build_query(kw, registry)

formatted_inputs_of(cls, kw, registry) ==
    IF cls = "ECB" THEN ecb_formatted_inputs(kw, registry)
    ELSE insee_formatted_inputs(kw, registry)

----------------------------------------------------------------------------
(* Inputs of the query builder *)

OptionNames == {"start_period", "end_period", "detail", "bogus"}

OptionValues == {<<"2", "0", "2", "0">>, <<"x", "&", "{", "}">>}

\* a dict: a sequence of <<key, value>> pairs with distinct keys, in insertion order
Dicts(n) ==
    {kw \in UNION {[1..k -> OptionNames \X OptionValues] : k \in 0..n} :
        \A i, j \in 1..Len(kw) : i # j => kw[i][1] # kw[j][1]}

Str(v) == [kind |-> "str", value |-> v]

InitQuery ==
    /\ kwargs \in Dicts(MaxOptions)
    /\ builder \in {"ECB", "INSEE", "OECD"}
    /\ shelf_name \in {"ecb", "oecd", "insee"}
    /\ formatted_inputs = NotCalled
    /\ time_string = <<>>
    /\ normalized = NotCalled
    /\ instance = "none"
    /\ data_flows = <<>>
    /\ requests = <<>>
    /\ call = NoCall
    /\ result = NotCalled
    /\ calls = 0
    /\ transport = "none"
    /\ document = NoDocument
    /\ extracted = NotCalled

\* the first statements of __retrieve_data, up to formatted_inputs
BuildQuery ==
    /\ formatted_inputs = NotCalled
    /\ formatted_inputs' = Str(formatted_inputs_of(builder, kwargs, inputs(shelf_name)))
    /\ UNCHANGED <<kwargs, builder, shelf_name, normVars, clientVars, extractVars>>

NextQuery == BuildQuery

SpecQuery == InitQuery /\ [][NextQuery]_vars

----------------------------------------------------------------------------
(* Statement about the Parameter Validator/Builder *)

\* a single-placeholder template filled with a value: what precedes the
\* trailing "{}", then the value
Filled(template, value) == SubSeq(template, 1, Len(template) - 2) \o value

\* the fragments of the registered keys of options, from the first key on,
\* each followed by "&" unless it is the last one
RECURSIVE JoinedFragments(_, _)
JoinedFragments(options, registry) ==
    IF options = <<>> THEN <<>>
    ELSE LET rest == JoinedFragments(Tail(options), registry)
             key == options[1][1]
         IN  IF key \notin DOMAIN registry THEN rest
             ELSE IF \E n \in 2..Len(options) : options[n][1] \in DOMAIN registry
             THEN Filled(registry[key], options[1][2]) \o <<"&">> \o rest
             ELSE Filled(registry[key], options[1][2])

\* C10: the built query string is exactly the '&'-join of template(key) filled
\* with options[key] for the keys of options that are in the registry, in the
\* iteration order of options; other keys contribute nothing and raise no
\* error; the result is the empty string when no key matches.
C10_QueryIsJoinOfRegisteredKeys ==
    formatted_inputs # NotCalled =>
        /\ formatted_inputs = Str(JoinedFragments(kwargs, inputs(shelf_name)))
        /\ (\A n \in 1..Len(kwargs) : kwargs[n][1] \notin DOMAIN inputs(shelf_name))
               => formatted_inputs = Str(<<>>)

\* C10 witness: a query was built from two registered keys given in an order
\* that is not the registry's
C10_Witness ==
    /\ formatted_inputs # NotCalled
    /\ Len(kwargs) = 2
    /\ kwargs[1][1] = "end_period"
    /\ kwargs[2][1] = "start_period"
    /\ shelf_name = "oecd"

----------------------------------------------------------------------------
(* Static registry of endpoints (datashelf.py) *)

\* the top-level keys of the dictionary each DataShelf accessor returns
shelf_keys(shelf) ==
    CASE shelf = "ecb" -> {"endpoint", "inputs"}
      [] shelf = "imf" -> {"data_flow_list"}
      [] shelf = "oecd" -> {"data_flow_list", "data", "code_list", "inputs"}
      [] shelf = "insee" -> {"data_flow_list", "data", "code_list",
                              "code_list_data_flow", "inputs"}

\* a URL or URL template of a registry; a long constant part is written as one
\* element, the placeholder as the two characters "{" and "}"
shelf_url(shelf, key) ==
    CASE shelf = "imf" /\ key = "data_flow_list" ->
             <<"https://registry.sdmx.org/ws/public/sdmxapi/rest/dataflow/">>
      [] shelf = "oecd" /\ key = "data_flow_list" ->
             <<"https://stats.oecd.org/restsdmx/sdmx.ashx/GetDataStructure/ALL">>
      [] shelf = "oecd" /\ key = "data" ->
             <<"http://stats.oecd.org/restsdmx/sdmx.ashx/GetData/">>
      [] shelf = "oecd" /\ key = "code_list" ->
             <<"http://stats.oecd.org/restsdmx/sdmx.ashx/GetSchema/">>
      [] shelf = "insee" /\ key = "data_flow_list" ->
             <<"https://bdm.insee.fr/series/sdmx/dataflow/FR1">>
      [] shelf = "insee" /\ key = "data" ->
             <<"https://bdm.insee.fr/series/sdmx/data/", "{", "}">>
      [] shelf = "insee" /\ key = "code_list" ->
             <<"https://bdm.insee.fr/series/sdmx/codelist/">>
      [] shelf = "insee" /\ key = "code_list_data_flow" ->
             <<"https://bdm.insee.fr/series/sdmx/datastructure/FR1/", "{", "}">>

\* protocol + wsEntryPoint + one resource of the "endpoint" table of the ECB registry
ecb_endpoint(resource) ==
    CASE resource = "resource" -> <<"https://", "sdw-wsrest.ecb.europa.eu/service/", "data/">>
      [] resource = "datastructure" ->
             <<"https://", "sdw-wsrest.ecb.europa.eu/service/", "datastructure/">>
      [] resource = "dataflow" ->
             <<"https://", "sdw-wsrest.ecb.europa.eu/service/", "dataflow/">>
      [] resource = "codelist" ->
             <<"https://", "sdw-wsrest.ecb.europa.eu/service/", "codelist/">>

\* the registry each client class stores in __data_shelf at construction
data_shelf(cls) ==
    CASE cls = "ECB" -> "oecd"
      [] cls = "IMF" -> "imf"
      [] cls = "OECD" -> "oecd"
      [] cls = "INSEE" -> "insee"

----------------------------------------------------------------------------
(* Inputs of the clients *)

Classes == {"ECB", "IMF", "INSEE", "OECD"}

\* identifiers, as stored in a listing document and as given by a caller
Idents == {<<"A", "B">>, <<"a", "b">>, <<"A", "b">>, <<"C", "D">>}

\* one data flow of a listing document: its id, agencyID and referenced structure
Entries ==
    {[id |-> i, agencyID |-> <<"F", "R", "1">>, structure |-> <<"D", "S">>] : i \in Idents}

\* the listing documents the transport may return: the data flows in document order
ListingDocs == UNION {[1..n -> Entries] : n \in 0..MaxCatalog}

\* the data documents the transport may return: without any recognized
\* container element, or with series that hold observations
DataDocs == {"no_container", "observations"}

\* the series identifiers a caller passes to retrieve_series_revision
IdBanks == {<<"1">>, <<"2">>}

\* the options a caller passes to fetch_data
ClientKwargs == {<<>>, << <<"bogus", <<"x">>>>, <<"start_period", <<"2", "0", "2", "0">>>> >>}

----------------------------------------------------------------------------
(* Source Clients *)

Elems(seq) == {seq[n] : n \in 1..Len(seq)}

\* str.upper() on one character of the identifiers' alphabet
UpperChar(c) ==
    CASE c = "a" -> "A"
      [] c = "b" -> "B"
      [] c = "c" -> "C"
      [] c = "d" -> "D"
      [] OTHER -> c

upper(s) == [n \in 1..Len(s) |-> UpperChar(s[n])]

Request(endpoint, url) == [endpoint |-> endpoint, url |-> url]

\* requests.get(url) issued a second time for the same call
get_with_retry(reqs, endpoint, url) ==
    Append(Append(reqs, Request(endpoint, url)), Request(endpoint, url))

\* requests.get(url): the request joins the requests issued so far
get(reqs, endpoint, url) == Append(reqs, Request(endpoint, url))

\* what the transport did with a request: returned a document, or failed
answer(ok) == IF ok THEN "ok" ELSE "failed"

Table(index) == [kind |-> "table", index |-> index]

\* show_data_flows returning a table emptied of its entries
show_data_flows_emptied(flows) == Table(<<>>)

\* return self.__data_flows
show_data_flows(flows) == Table(flows)

\* the ValueError of a failed validation, with the list its message prints
ValidationError(listed) == [kind |-> "raise", exc |-> "ValueError", listed |-> listed]

\* the URL __refresh_data_flow_list requests, or a KeyError when the registry
\* stored in __data_shelf has no such entry
data_flows_url(cls) ==
    IF cls = "ECB"
    THEN IF "endpoint" \in shelf_keys(data_shelf(cls))
         THEN Str(ecb_endpoint("dataflow") \o <<"ECB">>)
         ELSE Raise("KeyError")
    ELSE IF "data_flow_list" \in shelf_keys(data_shelf(cls))
         THEN Str(shelf_url(data_shelf(cls), "data_flow_list"))
         ELSE Raise("KeyError")

\* the column __refresh_data_flow_list makes the index of the catalog table
index_column(cls) ==
    CASE cls = "ECB" -> "DataFlow"
      [] cls = "IMF" -> "AgencyID"
      [] cls = "INSEE" -> "DataFlowID"
      [] cls = "OECD" -> "DataFlowID"

\* the columns left in the catalog table once set_index has moved the index out
table_columns(cls) ==
    CASE cls = "ECB" -> {"DataFlowName", "DataStructureCode"}
      [] cls = "IMF" -> {"DataFlowID", "DataFlowName"}
      [] cls = "INSEE" -> {"DataFlowDescription", "NumberOfSeries"}
      [] cls = "OECD" -> {"AgencyID", "DataFlowName"}

\* list(self.__data_flows.index) after __refresh_data_flow_list parsed doc
refresh_data_flow_list(cls, doc) ==
    [n \in 1..Len(doc) |-> IF index_column(cls) = "AgencyID" THEN doc[n].agencyID
                           ELSE doc[n].id]

\* outcome of the extraction of a downloaded data document
extract_data_from_tags(cls, doc) ==
    IF doc = "observations" THEN Table("series")
    ELSE CASE cls = "ECB" -> Raise("KeyError")
           [] cls = "INSEE" -> Raise("TypeError")
           [] cls = "OECD" -> Table("series")

\* validation that lets every identifier through
validated_data_flow_skipped(data_flow, index) == TRUE

\* validation that compares the identifier as given, without upper()
validated_data_flow_exact(data_flow, index) == data_flow \in Elems(index)

\* validated_data_flow of __retrieve_data
validated_data_flow(data_flow, index) == upper(data_flow) \in Elems(index)

\* the URL __retrieve_data requests
retrieve_data_url(cls, data_flow, query) ==
    IF cls = "ECB"
    THEN IF "endpoint" \in shelf_keys(data_shelf(cls))
         THEN Str(ecb_endpoint("resource") \o data_flow \o <<"?">> \o query)
         ELSE Raise("KeyError")
    ELSE LET base == Format(shelf_url(data_shelf(cls), "data"), data_flow)
         IN  IF query # <<>> THEN Str(Join(<<base, query>>, <<"?">>)) ELSE Str(base)

\* the URL __get_code_list_for_data_flow requests
code_list_url(cls, data_flow) ==
    IF cls = "ECB"
    THEN IF "endpoint" \in shelf_keys(data_shelf(cls))
         THEN Str(ecb_endpoint("datastructure") \o <<"ECB/">> \o <<"D", "S">>
                  \o <<"?references=children">>)
         ELSE Raise("KeyError")
    ELSE Str(shelf_url(data_shelf(cls), "code_list") \o data_flow)

\* the URL __retrieve_revisions_for_series requests, or a KeyError when the
\* registry stored in __data_shelf has no 'include_history' entry
revisions_url(cls, id_bank) ==
    IF "include_history" \in shelf_keys(data_shelf(cls))
    THEN Str(Format(shelf_url(data_shelf(cls), "include_history"), id_bank))
    ELSE Raise("KeyError")

\* __show_whole_code_list: the table parsed from the downloaded code lists
show_whole_code_list == Table("code_lists")

\* get_all_code_lists: calls __show_whole_code_list and has no return
\* statement, the table is dropped and the caller gets None
get_all_code_lists(whole_code_list) == PyNone

Init ==
    /\ instance = "none"
    /\ data_flows = <<>>
    /\ requests = <<>>
    /\ call = NoCall
    /\ result = NotCalled
    /\ calls = 0
    /\ transport = "none"
    /\ document = NoDocument
    /\ extracted = NotCalled
    /\ time_string = <<>>
    /\ normalized = NotCalled
    /\ kwargs = NoKwargs
    /\ builder = "none"
    /\ shelf_name = "none"
    /\ formatted_inputs = NotCalled

\* cls(): __init__ stores the registry and refreshes the list of data flows
Construct ==
    \E cls \in Classes, ok \in BOOLEAN, doc \in ListingDocs :
        /\ call = NoCall
        /\ call' = [op |-> "construct", cls |-> cls, listing |-> doc]
        /\ LET url == data_flows_url(cls) IN
           IF url.kind = "raise"
           THEN /\ result' = url
                /\ transport' = "none"
                /\ UNCHANGED <<instance, data_flows, requests>>
           ELSE /\ requests' = get(requests, "data_flow_list", url.value)
                /\ transport' = answer(ok)
                /\ IF ok
                   THEN /\ instance' = cls
                        /\ data_flows' = refresh_data_flow_list(cls, doc)
                        /\ result' = Table(data_flows')
                   ELSE /\ result' = Raise("TransportError")
                        /\ UNCHANGED <<instance, data_flows>>
        /\ UNCHANGED <<calls, normVars, queryVars, extractVars>>

\* retrieve_data()(data_flow, kwargs): __retrieve_data
FetchData ==
    \E data_flow \in Idents, kw \in ClientKwargs, ok \in BOOLEAN, doc \in DataDocs :
        /\ instance \in {"ECB", "INSEE", "OECD"}
        /\ calls < MaxCalls
        /\ calls' = calls + 1
        /\ call' = [op |-> "fetch_data", cls |-> instance, data_flow |-> data_flow,
                    kwargs |-> kw]
        /\ LET query == formatted_inputs_of(instance, kw, inputs(data_shelf(instance)))
               url == retrieve_data_url(instance, data_flow, query)
           IN  IF ~validated_data_flow(data_flow, data_flows)
               THEN /\ result' = ValidationError(data_flows)
                    /\ transport' = "none"
                    /\ UNCHANGED requests
               ELSE IF url.kind = "raise"
               THEN /\ result' = url
                    /\ transport' = "none"
                    /\ UNCHANGED requests
               ELSE /\ requests' = get(requests, "data", url.value)
                    /\ transport' = answer(ok)
                    /\ result' = IF ok THEN extract_data_from_tags(instance, doc)
                                 ELSE Raise("TransportError")
        /\ UNCHANGED <<instance, data_flows, normVars, queryVars, extractVars>>

\* get_code_list_for_data_flow()(data_flow): __get_code_list_for_data_flow
FetchCodeList ==
    \E data_flow \in Idents, ok \in BOOLEAN :
        /\ instance \in {"ECB", "OECD"}
        /\ calls < MaxCalls
        /\ calls' = calls + 1
        /\ call' = [op |-> "fetch_code_list", cls |-> instance, data_flow |-> data_flow]
        /\ LET url == code_list_url(instance, data_flow) IN
           IF data_flow \notin Elems(data_flows)
           THEN /\ result' = IF "DataFlow" \in table_columns(instance)
                             THEN ValidationError(data_flows)
                             ELSE Raise("KeyError")
                /\ transport' = "none"
                /\ UNCHANGED requests
           ELSE IF url.kind = "raise"
           THEN /\ result' = url
                /\ transport' = "none"
                /\ UNCHANGED requests
           ELSE /\ requests' = get(requests, "code_list", url.value)
                /\ transport' = answer(ok)
                /\ result' = IF ok THEN Table("code_list") ELSE Raise("TransportError")
        /\ UNCHANGED <<instance, data_flows, normVars, queryVars, extractVars>>

\* show_data_flows() / show_data_flow_list()
ListFlows ==
    /\ instance # "none"
    /\ calls < MaxCalls
    /\ calls' = calls + 1
    /\ call' = [op |-> "list_flows", cls |-> instance]
    /\ result' = show_data_flows(data_flows)
    /\ transport' = "none"
    /\ UNCHANGED <<instance, data_flows, requests, normVars, queryVars, extractVars>>

\* get_all_code_lists()
GetAllCodeLists ==
    \E ok \in BOOLEAN :
        /\ instance = "INSEE"
        /\ calls < MaxCalls
        /\ calls' = calls + 1
        /\ call' = [op |-> "get_all_code_lists", cls |-> instance]
        /\ requests' = get(requests, "code_list", shelf_url(data_shelf(instance), "code_list"))
        /\ transport' = answer(ok)
        /\ result' = IF ok THEN get_all_code_lists(show_whole_code_list)
                     ELSE Raise("TransportError")
        /\ UNCHANGED <<instance, data_flows, normVars, queryVars, extractVars>>

\* retrieve_series_revision()(id_bank): __retrieve_revisions_for_series
FetchRevisions ==
    \E id_bank \in IdBanks, ok \in BOOLEAN :
        /\ instance = "INSEE"
        /\ calls < MaxCalls
        /\ calls' = calls + 1
        /\ call' = [op |-> "fetch_revisions", cls |-> instance, id_bank |-> id_bank]
        /\ LET url == revisions_url(instance, id_bank) IN
           IF url.kind = "raise"
           THEN /\ result' = url
                /\ transport' = "none"
                /\ UNCHANGED requests
           ELSE /\ requests' = get(requests, "include_history", url.value)
                /\ transport' = answer(ok)
                /\ result' = IF ok THEN Table("revisions") ELSE Raise("TransportError")
        /\ UNCHANGED <<instance, data_flows, normVars, queryVars, extractVars>>

\* OECD.available_parameters(): a static method that builds an OECD client,
\* whose __init__ refreshes the list of data flows, to read the registry of
\* inputs, and returns what pprint returns, None
AvailableParameters ==
    \E ok \in BOOLEAN :
        /\ calls < MaxCalls
        /\ calls' = calls + 1
        /\ call' = [op |-> "available_parameters", cls |-> "OECD"]
        /\ LET url == data_flows_url("OECD") IN
           IF url.kind = "raise"
           THEN /\ result' = url
                /\ transport' = "none"
                /\ UNCHANGED requests
           ELSE /\ requests' = get(requests, "data_flow_list", url.value)
                /\ transport' = answer(ok)
                /\ result' = IF ok THEN PyNone ELSE Raise("TransportError")
        /\ UNCHANGED <<instance, data_flows, normVars, queryVars, extractVars>>

\* ECB.get_ecb_code_list(): a static method that builds an ECB client for each
\* of the three parts of the URL before it requests the code lists
GetEcbCodeList ==
    \E ok \in BOOLEAN :
        /\ calls < MaxCalls
        /\ calls' = calls + 1
        /\ call' = [op |-> "get_ecb_code_list", cls |-> "ECB"]
        /\ LET url == data_flows_url("ECB") IN
           IF url.kind = "raise"
           THEN /\ result' = url
                /\ transport' = "none"
                /\ UNCHANGED requests
           ELSE /\ requests' =
                       IF ok
                       THEN get(get(get(get(requests, "data_flow_list", url.value),
                                        "data_flow_list", url.value),
                                    "data_flow_list", url.value),
                                "code_list", ecb_endpoint("codelist") \o <<"ECB">>)
                       ELSE get(requests, "data_flow_list", url.value)
                /\ transport' = answer(ok)
                /\ result' = IF ok THEN Table("code_lists") ELSE Raise("TransportError")
        /\ UNCHANGED <<instance, data_flows, normVars, queryVars, extractVars>>

Next ==
    \/ Construct
    \/ FetchData
    \/ FetchCodeList
    \/ ListFlows
    \/ GetAllCodeLists
    \/ FetchRevisions
    \/ AvailableParameters
    \/ GetEcbCodeList

Spec == Init /\ [][Next]_vars

----------------------------------------------------------------------------
(* Statements about the Source Clients *)

\* the validation contract: identifier.upper() is a key of the catalog table
InCatalog(identifier) == \E n \in 1..Len(data_flows) : data_flows[n] = upper(identifier)

\* the identifier equals a stored identifier when letter case is ignored
InCatalogIgnoringCase(identifier) ==
    \E n \in 1..Len(data_flows) : upper(data_flows[n]) = upper(identifier)

IsValidationError(r) == r.kind = "raise" /\ r.exc = "ValueError"

\* C1: a request to the data endpoint is issued only by a fetch_data call whose
\* identifier passed validation against the catalog; a fetch_data call whose
\* identifier fails validation issues no request at all.
C1_DataRequestOnlyAfterValidation ==
    [][ /\ \A n \in (Len(requests) + 1)..Len(requests') :
               requests'[n].endpoint = "data" =>
                   call'.op = "fetch_data" /\ InCatalog(call'.data_flow)
        /\ (call'.op = "fetch_data" /\ ~InCatalog(call'.data_flow)) =>
               requests' = requests
      ]_vars

\* C1 witness: a fetch_data call went through validation and issued its request
C1_Witness ==
    /\ call.op = "fetch_data"
    /\ InCatalog(call.data_flow)
    /\ requests[Len(requests)].endpoint = "data"

\* C2: fetch_data fails with a validation error exactly when identifier.upper()
\* is not a key of the catalog, and the error lists exactly the keys of the catalog.
C2_ValidationErrorIffNotInCatalog ==
    call.op = "fetch_data" =>
        /\ IsValidationError(result) <=> ~InCatalog(call.data_flow)
        /\ IsValidationError(result) => Elems(result.listed) = Elems(data_flows)

\* C2 witness: fetch_data was refused with a validation error although the
\* identifier is stored, in lower case, in a catalog of two entries
C2_Witness ==
    /\ call.op = "fetch_data"
    /\ IsValidationError(result)
    /\ Len(data_flows) = 2
    /\ call.data_flow \in Elems(data_flows)

\* C3: whatever the letter case of the stored identifiers, fetch_data accepts
\* every identifier that equals a stored identifier when letter case is ignored.
C3_AcceptsIgnoringCase ==
    (call.op = "fetch_data" /\ InCatalogIgnoringCase(call.data_flow)) =>
        ~IsValidationError(result)

\* C4: fetch_code_list applies the validation of fetch_data: an identifier that
\* is not in the catalog fails with a validation error that lists the keys of
\* the catalog.
C4_CodeListValidationError ==
    (call.op = "fetch_code_list" /\ ~InCatalog(call.data_flow)) =>
        /\ IsValidationError(result)
        /\ Elems(result.listed) = Elems(data_flows)

----------------------------------------------------------------------------
(* Generic SDMX-ML 2.1 documents (sources/ecb.py) *)

\* largest number of message:DataSet elements in a generic document
MaxDataSets == 1

\* largest number of generic:Series elements in a DataSet
MaxGenericSeries == 2

\* largest number of generic:Obs elements in a Series
MaxGenericObs == 2

\* a generic:Value child of a SeriesKey or Attributes element
Value(id, value) == [id |-> id, value |-> value]

\* a generic:Attributes element with its children, or the lack of one
Attributes(children) == [present |-> TRUE, children |-> children]
NoAttributes == [present |-> FALSE, children |-> <<>>]

SeriesKeys ==
    {<<Value(<<"F">>, <<"M">>), Value(<<"R">>, <<"U", "2">>)>>,
     <<Value(<<"F">>, <<"A">>)>>}

SeriesAttributes ==
    {NoAttributes,
     Attributes(<<Value(<<"T">>, <<"t", "1">>), Value(<<"U">>, <<"u", "1">>)>>)}

ObsAttributeSets ==
    {NoAttributes,
     Attributes(<<>>),
     Attributes(<<Value(<<"S">>, <<"A">>)>>),
     Attributes(<<Value(<<"S">>, <<"A">>), Value(<<"C">>, <<"F">>)>>)}

ObsPeriods == {YearStr(2020) \o <<"-", "Q", "1">>, YearStr(2021) \o <<"-", "1", "3">>}

GenericObs ==
    [dimension : ObsPeriods, value : {<<"1", ".", "5">>}, attrs : ObsAttributeSets]

SeqsUpTo(S, n) == UNION {[1..k -> S] : k \in 0..n}

\* the rows appended by the passes of a loop, one after the other
RECURSIVE Flatten(_)
Flatten(seqs) == IF seqs = <<>> THEN <<>> ELSE seqs[1] \o Flatten(Tail(seqs))

GenericSeries ==
    [key : SeriesKeys, attrs : SeriesAttributes, obs : SeqsUpTo(GenericObs, MaxGenericObs)]

DataSetAttribs ==
    {[action |-> <<"R">>, validFromDate |-> <<"2", "0", "2", "0">>, present |-> TRUE],
     [action |-> <<>>, validFromDate |-> <<>>, present |-> FALSE]}

GenericDataSets ==
    [attrib : DataSetAttribs, series : SeqsUpTo(GenericSeries, MaxGenericSeries)]

GenericDocs ==
    [dialect : {"generic"}, datasets : SeqsUpTo(GenericDataSets, MaxDataSets)]

\* [tag.attrib["value"] for tag in list(element)]
values_of(children) == [i \in 1..Len(children) |-> children[i].value]

\* sub_series.find(".//...}Attributes"): the first Attributes element below
\* the Series in document order, taken from an Obs when the Series has none
find_attributes(sub_series) ==
    IF sub_series.attrs.present THEN sub_series.attrs
    ELSE LET with == {i \in 1..Len(sub_series.obs) : sub_series.obs[i].attrs.present} IN
         IF with = {} THEN NoAttributes
         ELSE sub_series.obs[CHOOSE i \in with : \A j \in with : i <= j].attrs

\* the Attributes branch of the loop over the children of an Obs
obs_attributes_of(observation) ==
    IF observation.attrs.present /\ observation.attrs.children # <<>>
    THEN <<observation.attrs.children[1].id, observation.attrs.children[1].value>>
    ELSE <<>>

\* one appended row of output
GenericRow(series_id, series_attributes, dimension, value, obs_attributes, action, valid_from_date) ==
    [seriesId |-> series_id, seriesAttributes |-> series_attributes,
     ObsTime |-> dimension, ObsValue |-> value, ObsAttributes |-> obs_attributes,
     Action |-> action, ValidFromDate |-> valid_from_date]

\* the loop over the Obs of one Series; the first exception ends it
RECURSIVE observation_rows(_, _, _, _, _)
observation_rows(obs, series_id, series_attributes, action, valid_from_date) ==
    IF obs = <<>> THEN [kind |-> "rows", rows |-> <<>>]
    ELSE LET dimension == convert_ecb_time_format_to_datetime(obs[1].dimension) IN
         IF dimension.kind = "raise" THEN dimension
         ELSE LET rest == observation_rows(Tail(obs), series_id, series_attributes,
                                           action, valid_from_date) IN
              IF rest.kind = "raise" THEN rest
              ELSE [kind |-> "rows",
                    rows |-> <<GenericRow(series_id, series_attributes, dimension,
                                          obs[1].value, obs_attributes_of(obs[1]),
                                          action, valid_from_date)>> \o rest.rows]

\* the loop over list_of_series
RECURSIVE series_rows(_, _, _)
series_rows(list_of_series, action, valid_from_date) ==
    IF list_of_series = <<>> THEN [kind |-> "rows", rows |-> <<>>]
    ELSE LET sub_series == list_of_series[1]
             attributes_key == find_attributes(sub_series)
         IN  IF ~attributes_key.present THEN Raise("TypeError")
             ELSE LET series_id == Join(values_of(sub_series.key), <<".">>)
                      series_attributes == Join(values_of(attributes_key.children), <<",">>)
                      first == observation_rows(sub_series.obs, series_id,
                                                series_attributes, action, valid_from_date)
                  IN  IF first.kind = "raise" THEN first
                      ELSE LET rest == series_rows(Tail(list_of_series), action,
                                                   valid_from_date) IN
                           IF rest.kind = "raise" THEN rest
                           ELSE [kind |-> "rows", rows |-> first.rows \o rest.rows]

\* ECB.__extract_data_from_tags(dataset)
ecb_extract_data_from_tags(dataset) ==
    IF ~dataset.attrib.present THEN Raise("KeyError")
    ELSE series_rows(dataset.series, dataset.attrib.action, dataset.attrib.validFromDate)

\* a table with its index column and its rows
Frame(index, rows) == [kind |-> "table", index |-> index, rows |-> rows]

\* the DataSet loop of ECB.__retrieve_data and the set_index that follows it
RECURSIVE ecb_results(_, _)
ecb_results(datasets, appended) ==
    IF datasets = <<>>
    THEN IF appended = 0 THEN Raise("KeyError") ELSE Frame("seriesId", <<>>)
    ELSE LET frame == ecb_extract_data_from_tags(datasets[1]) IN
         IF frame.kind = "raise" THEN frame
         ELSE LET rest == ecb_results(Tail(datasets), appended + 1) IN
              IF rest.kind = "raise" THEN rest
              ELSE Frame("seriesId", frame.rows \o rest.rows)

InitGeneric ==
    /\ document \in GenericDocs
    /\ extracted = NotCalled
    /\ time_string = <<>>
    /\ normalized = NotCalled
    /\ kwargs = NoKwargs
    /\ builder = "none"
    /\ shelf_name = "none"
    /\ formatted_inputs = NotCalled
    /\ instance = "none"
    /\ data_flows = <<>>
    /\ requests = <<>>
    /\ call = NoCall
    /\ result = NotCalled
    /\ calls = 0
    /\ transport = "none"

ExtractGeneric ==
    /\ extracted = NotCalled
    /\ extracted' = ecb_results(document.datasets, 0)
    /\ UNCHANGED <<document, normVars, queryVars, clientVars>>

NextGeneric == ExtractGeneric

SpecGeneric == InitGeneric /\ [][NextGeneric]_vars

----------------------------------------------------------------------------
(* Claims about the generic extractor *)

Extracted == extracted # NotCalled

\* every Obs of every Series of a generic document, in document order, with
\* the Series it belongs to
ObsOfDocument(doc) ==
    Flatten([d \in 1..Len(doc.datasets) |->
        Flatten([k \in 1..Len(doc.datasets[d].series) |->
            [o \in 1..Len(doc.datasets[d].series[k].obs) |->
                [series |-> doc.datasets[d].series[k],
                 obs |-> doc.datasets[d].series[k].obs[o]]]])])

\* every period of the document is one the normalizer resolves to a date
PeriodsResolve(doc) ==
    \A i \in 1..Len(ObsOfDocument(doc)) :
        convert_ecb_time_format_to_datetime(ObsOfDocument(doc)[i].obs.dimension).kind = "date"

\* the id and the value of every child, in document order
IdValuePairs(children) ==
    Flatten([i \in 1..Len(children) |-> <<children[i].id, children[i].value>>])

\* every DataSet of the document carries action and validFromDate
DataSetsDated(doc) ==
    \A d \in 1..Len(doc.datasets) : doc.datasets[d].attrib.present

\* C11: for a generic document with at least one DataSet, each carrying
\* action and validFromDate, whose periods all resolve, the extractor returns
\* one row per Obs of every Series, each indexed by the '.'-join of its
\* Series' SeriesKey values in document order and holding
\* normalize(ObsDimension value) as ObsTime.
C11_OneRowPerObs ==
    (Extracted /\ document.dialect = "generic" /\ document.datasets # <<>>
               /\ DataSetsDated(document) /\ PeriodsResolve(document)) =>
        /\ extracted.kind = "table"
        /\ extracted.index = "seriesId"
        /\ Len(extracted.rows) = Len(ObsOfDocument(document))
        /\ \A i \in 1..Len(ObsOfDocument(document)) :
            LET at == ObsOfDocument(document)[i] IN
            /\ extracted.rows[i].seriesId =
                   Join([k \in 1..Len(at.series.key) |-> at.series.key[k].value], <<".">>)
            /\ extracted.rows[i].ObsTime =
                   convert_ecb_time_format_to_datetime(at.obs.dimension)

\* C20: in every table the generic extractor returns, the row of an Obs whose
\* Attributes element holds n >= 0 children has the id and the value of all
\* n children, in document order, as its ObsAttributes (2n entries).
C20_AllObsAttributes ==
    (Extracted /\ document.dialect = "generic" /\ extracted.kind = "table") =>
        \A i \in 1..Len(extracted.rows) :
            LET at == ObsOfDocument(document)[i] IN
            at.obs.attrs.present =>
                /\ Len(extracted.rows[i].ObsAttributes) = 2 * Len(at.obs.attrs.children)
                /\ extracted.rows[i].ObsAttributes = IdValuePairs(at.obs.attrs.children)

----------------------------------------------------------------------------
(* Flat structure-specific documents (sources/insee.py) *)

\* largest number of Series elements in the DataSet of a flat document
MaxFlatSeries == 2

\* largest number of Obs elements in a Series of a flat document
MaxFlatObs == 1

\* one XML attribute; element.attrib keeps the attributes in document order
Attr(name, value) == [name |-> name, value |-> value]

FlatSeriesAttribs ==
    {<<Attr("IDBANK", <<"1">>), Attr("FREQ", <<"A">>)>>,
     <<Attr("FREQ", <<"A">>), Attr("IDBANK", <<"2">>)>>,
     <<Attr("IDBANK", <<"3">>), Attr("FREQ", <<"M">>), Attr("REF_AREA", <<"F", "R">>)>>}

FlatObsAttribs ==
    {<<Attr("TIME_PERIOD", YearStr(2020) \o <<"-", "Q", "1">>),
       Attr("OBS_VALUE", <<"1", ".", "5">>)>>,
     <<Attr("TIME_PERIOD", YearStr(2020) \o <<"-", "0", "2">>),
       Attr("OBS_VALUE", <<"N", "a", "N">>), Attr("OBS_STATUS", <<"A">>)>>,
     <<Attr("TIME_PERIOD", YearStr(2021) \o <<"-", "1", "3">>),
       Attr("OBS_VALUE", <<"4">>)>>,
     <<>>}

FlatSeries == [attrib : FlatSeriesAttribs, obs : SeqsUpTo(FlatObsAttribs, MaxFlatObs)]

\* a document with one message:DataSet element and its Series, or with no
\* DataSet element at all
FlatDocs ==
    [dialect : {"flat"}, container : {TRUE}, series : SeqsUpTo(FlatSeries, MaxFlatSeries)]
        \cup {[dialect |-> "flat", container |-> FALSE, series |-> <<>>]}

\* a Python list of the extractor
List(items) == [kind |-> "list", items |-> items]

\* list(element.attrib.keys())
keys(attrib) == [i \in 1..Len(attrib) |-> attrib[i].name]

\* list(element.attrib.values())
values(attrib) == [i \in 1..Len(attrib) |-> Str(attrib[i].value)]

\* the Series the DataSet loop passes over
series_of(doc) == IF doc.container THEN doc.series ELSE <<>>

\* the Obs the inner loop passes over, in document order
obs_of(all_series) == Flatten([k \in 1..Len(all_series) |-> all_series[k].obs])

\* series_columns taken from the first Series instead of the last
series_columns_of_first(all_series) ==
    IF all_series = <<>> THEN PyNone ELSE List(keys(all_series[1].attrib))

\* series_columns after the loops: assigned anew for every Series
series_columns(all_series) ==
    IF all_series = <<>> THEN PyNone ELSE List(keys(all_series[Len(all_series)].attrib))

\* obs_columns after the loops: assigned anew for every Obs
obs_columns(all_series) ==
    LET all_obs == obs_of(all_series) IN
    IF all_obs = <<>> THEN PyNone ELSE List(keys(all_obs[Len(all_obs)]))

\* output after the loops: one row for every Obs that has attributes
flat_output(all_series) ==
    Flatten([k \in 1..Len(all_series) |->
        Flatten([o \in 1..Len(all_series[k].obs) |->
            IF all_series[k].obs[o] # <<>>
            THEN <<values(all_series[k].attrib) \o values(all_series[k].obs[o])>>
            ELSE <<>>])])

\* width of the widest row
RECURSIVE Widest(_)
Widest(data) ==
    IF data = <<>> THEN 0
    ELSE LET rest == Widest(Tail(data)) IN
         IF Len(data[1]) > rest THEN Len(data[1]) ELSE rest

\* pd.DataFrame(data=list of lists, columns=names): short rows are filled with
\* None up to the widest row, whose width has to be the number of names
DataFrame(data, columns) ==
    IF data = <<>>
    THEN [kind |-> "table", index |-> "", labels |-> <<>>, columns |-> columns,
          rows |-> <<>>]
    ELSE IF Widest(data) # Len(columns) THEN Raise("ValueError")
    ELSE [kind |-> "table", index |-> "", labels |-> <<>>, columns |-> columns,
          rows |-> [i \in 1..Len(data) |->
                       [j \in 1..Len(columns) |->
                           IF j <= Len(data[i]) THEN data[i][j] ELSE PyNone]]]

HasColumn(frame, name) == \E j \in 1..Len(frame.columns) : frame.columns[j] = name

Position(frame, name) == CHOOSE j \in 1..Len(frame.columns) : frame.columns[j] = name

\* the sequence without its element at position j
Without(seq, j) == SubSeq(seq, 1, j - 1) \o SubSeq(seq, j + 1, Len(seq))

\* frame[name]
Column(frame, name) ==
    [i \in 1..Len(frame.rows) |-> frame.rows[i][Position(frame, name)]]

\* frame.set_index(name): the column becomes the row labels
set_index(frame, name) ==
    IF ~HasColumn(frame, name) THEN Raise("KeyError")
    ELSE [kind |-> "table", index |-> name, labels |-> Column(frame, name),
          columns |-> Without(frame.columns, Position(frame, name)),
          rows |-> [i \in 1..Len(frame.rows) |->
                       Without(frame.rows[i], Position(frame, name))]]

\* series.apply(lambda x: self.__convert_ecb_time_format_to_datetime(x)): the
\* first exception ends it
RECURSIVE apply_convert(_)
apply_convert(cells) ==
    IF cells = <<>> THEN List(<<>>)
    ELSE IF cells[1] = PyNone THEN Raise("AttributeError")
    ELSE LET first == convert_ecb_time_format_to_datetime(cells[1].value) IN
         IF first.kind = "raise" THEN first
         ELSE LET rest == apply_convert(Tail(cells)) IN
              IF rest.kind = "raise" THEN rest
              ELSE List(<<first>> \o rest.items)

\* INSEE.__extract_data_from_tags(file_content)
insee_extract_data_from_tags(doc) ==
    LET all_series == series_of(doc)
        s_columns == series_columns(all_series)
        o_columns == obs_columns(all_series)
    IN  IF s_columns = PyNone \/ o_columns = PyNone THEN Raise("TypeError")
        ELSE LET frame == DataFrame(flat_output(all_series),
                                    s_columns.items \o o_columns.items) IN
             IF frame.kind = "raise" THEN frame
             ELSE LET results == set_index(frame, "IDBANK") IN
                  IF results.kind = "raise" THEN results
                  ELSE IF ~HasColumn(results, "TIME_PERIOD") THEN Raise("KeyError")
                  ELSE LET applied == apply_convert(Column(results, "TIME_PERIOD")) IN
                       IF applied.kind = "raise" THEN applied ELSE results

InitFlat ==
    /\ document \in FlatDocs
    /\ extracted = NotCalled
    /\ time_string = <<>>
    /\ normalized = NotCalled
    /\ kwargs = NoKwargs
    /\ builder = "none"
    /\ shelf_name = "none"
    /\ formatted_inputs = NotCalled
    /\ instance = "none"
    /\ data_flows = <<>>
    /\ requests = <<>>
    /\ call = NoCall
    /\ result = NotCalled
    /\ calls = 0
    /\ transport = "none"

ExtractFlat ==
    /\ extracted = NotCalled
    /\ extracted' = insee_extract_data_from_tags(document)
    /\ UNCHANGED <<document, normVars, queryVars, clientVars>>

NextFlat == ExtractFlat

SpecFlat == InitFlat /\ [][NextFlat]_vars

----------------------------------------------------------------------------
(* Legacy SDMX 2.0 documents (sources/oecd.py) *)

\* largest number of Series elements in a legacy document
MaxLegacySeries == 2

\* largest number of Obs elements in a Series of a legacy document
MaxLegacyObs == 2

LegacySeriesAttribs ==
    {<<Attr("LOCATION", <<"B">>)>>,
     <<Attr("LOCATION", <<"A">>), Attr("SUBJECT", <<"X">>)>>}

LegacyObs ==
    [TIME : {YearStr(2020) \o <<"-", "Q", "1">>, YearStr(2021)},
     OBS_VALUE : {YearStr(2020), <<"1", ".", "5">>}]

LegacySeries ==
    [attrib : LegacySeriesAttribs, obs : SeqsUpTo(LegacyObs, MaxLegacyObs)]

\* a document and its {http://oecd.stat.org/Data}Series elements, if any
LegacyDocs == [dialect : {"legacy"}, series : SeqsUpTo(LegacySeries, MaxLegacySeries)]

\* the characters of the series identifiers, in code point order
CodePoints == <<".", "A", "B", "X">>

CodePoint(c) == CHOOSE i \in 1..Len(CodePoints) : CodePoints[i] = c

\* a < b for two str
RECURSIVE StrLess(_, _)
StrLess(a, b) ==
    IF b = <<>> THEN FALSE
    ELSE IF a = <<>> THEN TRUE
    ELSE IF a[1] = b[1] THEN StrLess(Tail(a), Tail(b))
    ELSE CodePoint(a[1]) < CodePoint(b[1])

\* one appended row of output
LegacyRow(series_id, obs_time, obs_value) ==
    [SeriesID |-> series_id, ObsTime |-> obs_time, ObsValue |-> obs_value]

\* the loop over the Obs of one Series; the first exception ends it
RECURSIVE legacy_obs_rows(_, _)
legacy_obs_rows(obs, series_id) ==
    IF obs = <<>> THEN [kind |-> "rows", rows |-> <<>>]
    ELSE LET obs_time == Str(obs[1].TIME)
             obs_value == convert_ecb_time_format_to_datetime(obs[1].OBS_VALUE)
         IN  IF obs_value.kind = "raise" THEN obs_value
             ELSE LET rest == legacy_obs_rows(Tail(obs), series_id) IN
                  IF rest.kind = "raise" THEN rest
                  ELSE [kind |-> "rows",
                        rows |-> <<LegacyRow(series_id, obs_time, obs_value)>> \o rest.rows]

\* the loop over the Series elements
RECURSIVE legacy_output(_)
legacy_output(all_series) ==
    IF all_series = <<>> THEN [kind |-> "rows", rows |-> <<>>]
    ELSE LET series_id == Join([i \in 1..Len(all_series[1].attrib) |->
                                    all_series[1].attrib[i].value], <<".">>)
             first == legacy_obs_rows(all_series[1].obs, series_id)
         IN  IF first.kind = "raise" THEN first
             ELSE LET rest == legacy_output(Tail(all_series)) IN
                  IF rest.kind = "raise" THEN rest
                  ELSE [kind |-> "rows", rows |-> first.rows \o rest.rows]

\* results.sort_index(): the rows in ascending order of their label; the
\* default sort is not stable, rows with one label come in any order
sort_index(rows) ==
    {[i \in 1..Len(rows) |-> rows[p[i]]] :
        p \in {q \in Permutations(1..Len(rows)) :
                  \A i, j \in 1..Len(rows) :
                      i < j => ~StrLess(rows[q[j]].SeriesID, rows[q[i]].SeriesID)}}

\* OECD.__extract_data_from_tags(file_content): the outcomes it can have
oecd_extract_data_from_tags(doc) ==
    LET output == legacy_output(doc.series) IN
    IF output.kind = "raise" THEN {output}
    ELSE {Frame("SeriesID", sorted) : sorted \in sort_index(output.rows)}

InitLegacy ==
    /\ document \in LegacyDocs
    /\ extracted = NotCalled
    /\ time_string = <<>>
    /\ normalized = NotCalled
    /\ kwargs = NoKwargs
    /\ builder = "none"
    /\ shelf_name = "none"
    /\ formatted_inputs = NotCalled
    /\ instance = "none"
    /\ data_flows = <<>>
    /\ requests = <<>>
    /\ call = NoCall
    /\ result = NotCalled
    /\ calls = 0
    /\ transport = "none"

ExtractLegacy ==
    /\ extracted = NotCalled
    /\ extracted' \in oecd_extract_data_from_tags(document)
    /\ UNCHANGED <<document, normVars, queryVars, clientVars>>

NextLegacy == ExtractLegacy

SpecLegacy == InitLegacy /\ [][NextLegacy]_vars

----------------------------------------------------------------------------
(* Claims about the three extractors *)

\* the document holds no element the extractor of its dialect looks for
NoContainer(doc) ==
    CASE doc.dialect = "generic" -> doc.datasets = <<>>
      [] doc.dialect = "flat" -> ~doc.container
      [] doc.dialect = "legacy" -> doc.series = <<>>
      [] OTHER -> FALSE

\* C12: for each of the three extractors, a document without any DataSet or
\* Series container yields a table without rows, not an error.
C12_NoContainerEmptyTable ==
    (Extracted /\ NoContainer(document)) =>
        /\ extracted.kind = "table"
        /\ extracted.rows = <<>>

\* the Obs of a flat document that carry attributes, in document order
FlatRowObs(doc) ==
    Flatten([k \in 1..Len(doc.series) |->
        Flatten([o \in 1..Len(doc.series[k].obs) |->
            IF doc.series[k].obs[o] # <<>> THEN <<doc.series[k].obs[o]>> ELSE <<>>])])

\* the value of the attribute of that name
AttrValue(attrib, name) ==
    attrib[CHOOSE i \in 1..Len(attrib) : attrib[i].name = name].value

\* C18: every row of a table returned by the flat or the legacy extractor
\* holds normalize(period of its observation) as observation time and the
\* observation's value attribute, unchanged, as observation value.
C18_TimeNormalizedValueKept ==
    (Extracted /\ extracted.kind = "table") =>
        CASE document.dialect = "flat" ->
                 \A i \in 1..Len(extracted.rows) :
                     LET obs == FlatRowObs(document)[i] IN
                     /\ Column(extracted, "TIME_PERIOD")[i] =
                            convert_ecb_time_format_to_datetime(AttrValue(obs, "TIME_PERIOD"))
                     /\ Column(extracted, "OBS_VALUE")[i] = Str(AttrValue(obs, "OBS_VALUE"))
          [] document.dialect = "legacy" ->
                 \A i \in 1..Len(extracted.rows) :
                     \E k \in 1..Len(document.series) :
                         \E o \in 1..Len(document.series[k].obs) :
                             LET obs == document.series[k].obs[o] IN
                             /\ extracted.rows[i].ObsTime =
                                    convert_ecb_time_format_to_datetime(obs.TIME)
                             /\ extracted.rows[i].ObsValue = Str(obs.OBS_VALUE)
          [] OTHER -> TRUE

\* the names, in order, but for the one that became the index
NamesBut(names, index) ==
    Flatten([i \in 1..Len(names) |-> IF names[i] = index THEN <<>> ELSE <<names[i]>>])

AttrNames(attrib) == [i \in 1..Len(attrib) |-> attrib[i].name]

FirstOf(seq) == seq[1]
LastOf(seq) == seq[Len(seq)]

\* every Obs of a flat document, in document order
FlatObs(doc) == Flatten([k \in 1..Len(doc.series) |-> doc.series[k].obs])

FlatTable == Extracted /\ document.dialect = "flat" /\ extracted.kind = "table"

\* C19 as stated: the columns of a table returned by the flat extractor are
\* the attribute names of the first Series and of the first Obs of the
\* document.
C19_ColumnsOfFirst ==
    FlatTable =>
        /\ extracted.index = "IDBANK"
        /\ extracted.columns =
               NamesBut(AttrNames(FirstOf(document.series).attrib)
                            \o AttrNames(FirstOf(FlatObs(document))), "IDBANK")

\* C19 amended: the columns of a table returned by the flat extractor are the
\* attribute names of the last Series followed by those of the last Obs of
\* the document, IDBANK being the index.
C19_ColumnsOfLast ==
    FlatTable =>
        /\ extracted.index = "IDBANK"
        /\ extracted.columns =
               NamesBut(AttrNames(LastOf(document.series).attrib)
                            \o AttrNames(LastOf(FlatObs(document))), "IDBANK")

\* a table came back for a document whose first and last Obs both carry
\* attributes, under different names
C19_Witness ==
    /\ FlatTable
    /\ FirstOf(FlatObs(document)) # <<>>
    /\ AttrNames(FirstOf(FlatObs(document))) # AttrNames(LastOf(FlatObs(document)))

----------------------------------------------------------------------------
(* Claims about the life cycle of the Source Clients *)

\* the listing URL of a provider, read from that provider's own registry entry
OwnListingUrl(cls) ==
    CASE cls = "ECB" -> ecb_endpoint("dataflow") \o <<"ECB">>
      [] cls = "IMF" -> shelf_url("imf", "data_flow_list")
      [] cls = "INSEE" -> shelf_url("insee", "data_flow_list")
      [] cls = "OECD" -> shelf_url("oecd", "data_flow_list")

\* C13: constructing a client of any of the four classes, the transport not
\* failing, issues exactly one request, to the listing URL of the provider's
\* own registry entry, and leaves the client holding the parsed catalog.
C13_ConstructIssuesOneListingRequest ==
    (call.op = "construct" /\ transport # "failed") =>
        /\ requests = <<Request("data_flow_list", OwnListingUrl(call.cls))>>
        /\ instance = call.cls
        /\ result = Table(data_flows)

\* C14: the catalog of an instance never changes once built, and every
\* list_flows call returns that catalog and issues no request, whichever
\* calls came before it.
C14_ListFlowsReturnsCatalogWithoutRequest ==
    [][ /\ instance # "none" => (instance' = instance /\ data_flows' = data_flows)
        /\ call'.op = "list_flows" =>
               /\ requests' = requests
               /\ result' = Table(data_flows) ]_vars

\* list_flows after a fetch_data that issued a request, on a catalog that
\* holds data flows
C14_Witness ==
    /\ call.op = "list_flows"
    /\ calls = 2
    /\ Len(requests) = 2
    /\ requests[2].endpoint = "data"
    /\ data_flows # <<>>
    /\ result = Table(data_flows)

\* C15: every fetch_data call whose identifier is in the catalog issues
\* exactly one request, to the data endpoint, a repeated call as well; when
\* the transport fails the call ends with the transport's failure.
C15_OneDataRequestPerFetch ==
    [][ (call'.op = "fetch_data" /\ InCatalog(call'.data_flow)) =>
            /\ Len(requests') = Len(requests) + 1
            /\ requests'[Len(requests')].endpoint = "data"
            /\ SubSeq(requests', 1, Len(requests)) = requests
            /\ transport' = "failed" => result' = Raise("TransportError") ]_vars

\* the same fetch_data call made twice: two equal data requests, the second
\* one failing in the transport
C15_Witness ==
    /\ call.op = "fetch_data"
    /\ calls = 2
    /\ Len(requests) = 3
    /\ requests[2].endpoint = "data"
    /\ requests[3] = requests[2]
    /\ transport = "failed"
    /\ result = Raise("TransportError")

\* C16: every public operation that returns, returns a table, never an
\* absent value; get_all_code_lists returns the code-list table.
C16_OperationsReturnTables ==
    (call.op # "none" /\ result.kind # "raise") =>
        /\ result.kind = "table"
        /\ call.op = "get_all_code_lists" => result = show_whole_code_list

\* C17: fetch_revisions, the transport not failing, issues one request to the
\* revision-history URL of the INSEE registry and returns a table.
C17_RevisionsRequested ==
    [][ (call'.op = "fetch_revisions" /\ transport' # "failed") =>
            /\ Len(requests') = Len(requests) + 1
            /\ requests'[Len(requests')].endpoint = "include_history"
            /\ result'.kind = "table" ]_vars

----------------------------------------------------------------------------
(* Claims about the series attributes and the provenance fields *)

GenericTable == Extracted /\ document.dialect = "generic" /\ extracted.kind = "table"

\* every Series of the document has an Attributes element of its own
SeriesHaveAttributes(doc) ==
    \A d \in 1..Len(doc.datasets) :
        \A k \in 1..Len(doc.datasets[d].series) : doc.datasets[d].series[k].attrs.present

\* C21: in every table the generic extractor returns, the seriesAttributes of
\* a row is the ','-join of the values of the Attributes element of the row's
\* own Series, in document order, and holds nothing taken from the Attributes
\* of an Obs.
C21_SeriesAttributesOfSeries ==
    GenericTable =>
        \A i \in 1..Len(extracted.rows) :
            LET own == ObsOfDocument(document)[i].series.attrs.children IN
            extracted.rows[i].seriesAttributes =
                Join([k \in 1..Len(own) |-> own[k].value], <<",">>)

\* C22: a DataSet without action and validFromDate, whose Series all have
\* Attributes and whose periods all resolve, still yields one row per Obs and
\* no error.
C22_RowsWithoutProvenance ==
    (Extracted /\ document.dialect = "generic" /\ document.datasets # <<>>
               /\ ~DataSetsDated(document) /\ SeriesHaveAttributes(document)
               /\ PeriodsResolve(document)) =>
        /\ extracted.kind = "table"
        /\ Len(extracted.rows) = Len(ObsOfDocument(document))

----------------------------------------------------------------------------
(* Claims about the catalog index and the static helpers *)

\* C23: the catalog every client builds at construction is indexed by the
\* data-flow identifiers of the entries of the listing, in document order.
C23_CatalogIndexedByIdentifier ==
    (call.op = "construct" /\ result.kind = "table") =>
        result.index = [n \in 1..Len(call.listing) |-> call.listing[n].id]

\* C24: OECD.available_parameters() issues no request; ECB.get_ecb_code_list(),
\* the transport not failing, issues exactly one request, to the code-list
\* URL of the ECB, and none to a listing URL.
C24_StaticHelpersDoNotRefresh ==
    [][ /\ call'.op = "available_parameters" => requests' = requests
        /\ (call'.op = "get_ecb_code_list" /\ transport' # "failed") =>
               requests' = Append(requests,
                                  Request("code_list", ecb_endpoint("codelist") \o <<"ECB">>))
      ]_vars

====
